---- MODULE Spec2Model ----
(***************************************************************************)
(* The binary codec of solande-core: Output, OutputId, Commitment,         *)
(* Nullifier, Transaction and UnencryptedOutput.                            *)
(*                                                                         *)
(* A byte buffer is a sequence of naturals in 0..255.  H256 and H160 are    *)
(* their 32 and 20 bytes.  U256 and u32 exceed the integers of the model    *)
(* checker, so a value of these types is the sequence of its base-256       *)
(* digits, least significant first (its little-endian memory image); the    *)
(* big-endian conversions reverse the digits.  The result of a decode is    *)
(* Ok(value), Err(error) or Panicked (a Rust panic: a slice index out of    *)
(* range or a fixed-width hash built from a slice of the wrong length).     *)
(***************************************************************************)
EXTENDS Integers, Sequences, FiniteSets, TLC

(***************************************************************************)
(* Bounds of the model.                                                     *)
(***************************************************************************)
\* longest inputs list of a sample Transaction
MaxInputs == 2
\* longest outputs list of a sample Transaction
MaxOutputs == 2
\* most bytes appended after an encoding
MaxExtra == 2
\* longest patterned raw buffer
MaxRawLen == 118

(***************************************************************************)
(* Byte sequences.                                                          *)
(***************************************************************************)
Fill(n, b) == [i \in 1..n |-> b]

Ramp(s, n) == [i \in 1..n |-> (s + i) % 256]

Reverse(s) == [i \in 1..Len(s) |-> s[Len(s) + 1 - i]]

\* &bytes[a..b] is in range
InRange(bytes, a, b) == a <= b /\ b <= Len(bytes)

\* &bytes[a..b]
Slice(bytes, a, b) == [i \in 1..(b - a) |-> bytes[a + i]]

\* &bytes[a..]
SliceFrom(bytes, a) == Slice(bytes, a, Len(bytes))

RECURSIVE Concat(_)
Concat(ss) == IF ss = <<>> THEN <<>> ELSE Head(ss) \o Concat(Tail(ss))

RECURSIVE Sum(_)
Sum(ns) == IF ns = <<>> THEN 0 ELSE Head(ns) + Sum(Tail(ns))

RECURSIVE Digits(_, _)
\* the w base-256 digits of n, least significant first
Digits(n, w) == IF w = 0 THEN <<>> ELSE <<n % 256>> \o Digits(n \div 256, w - 1)

(***************************************************************************)
(* error.rs                                                                 *)
(***************************************************************************)
Ok(v) == [tag |-> "Ok", value |-> v]

Err(e) == [tag |-> "Err", error |-> e]

Panicked == [tag |-> "Panic"]

NoResult == [tag |-> "None"]

Errors == {"FailedToDecode", "UnsupportedCommitmentType", "UnsupportedNullifierType"}

\* a ? that maps every inner error to FailedToDecode
PropagateGeneric(r) == IF r.tag = "Err" THEN Err("FailedToDecode") ELSE r

\* the ? operator on an inner result that is not Ok: it is returned as it is
Propagate(r) == r

(***************************************************************************)
(* Fixed-width types of primitive_types and the integer conversions.        *)
(***************************************************************************)
H256_LEN == 32

H160_LEN == 20

U256_LEN == 32

U32_LEN == 4

\* H256::from_slice / H160::from_slice panic unless the slice has the width
FromSliceOk(s, w) == Len(s) = w

\* to_little_endian written for to_big_endian
U256ToBigEndianSwapped(u) == u

U256ToBigEndian(u) == Reverse(u)

\* U256::from_big_endian: shorter slices are the low-order bytes
U256FromBigEndian(s) == Reverse(s) \o Fill(U256_LEN - Len(s), 0)

U32ToBeBytes(x) == Reverse(x)

U32FromBeBytes(s) == Reverse(s)

\* usize as u16
AsU16(n) == n % 65536

U16ToBeBytes(n) == <<n \div 256, n % 256>>

U16FromBeBytes(b0, b1) == b0 * 256 + b1

(***************************************************************************)
(* commitment.rs: Output                                                    *)
(***************************************************************************)
UNSPENT_OUTPUT_BYTE_LENGTH == 84

OutputByteLength(o) == UNSPENT_OUTPUT_BYTE_LENGTH

OutputEncode(o) == U256ToBigEndian(o.amount) \o o.asset \o o.owner

OutputDecode(bytes) ==
    IF Len(bytes) < UNSPENT_OUTPUT_BYTE_LENGTH THEN Err("FailedToDecode")
    ELSE IF ~(InRange(bytes, 0, 32) /\ InRange(bytes, 32, 64) /\ InRange(bytes, 64, 84))
    THEN Panicked
    ELSE IF ~(FromSliceOk(Slice(bytes, 32, 64), H256_LEN)
              /\ FromSliceOk(Slice(bytes, 64, 84), H160_LEN))
    THEN Panicked
    ELSE Ok([amount |-> U256FromBigEndian(Slice(bytes, 0, 32)),
             asset |-> Slice(bytes, 32, 64),
             owner |-> Slice(bytes, 64, 84)])

(***************************************************************************)
(* commitment.rs: Commitment                                                *)
(***************************************************************************)
CommitmentPrivate(h) == [variant |-> "Private", hash |-> h]

CommitmentPublic(o) == [variant |-> "Public", output |-> o]

\* the tag byte of the Public variant forgotten
CommitmentByteLengthNoTag(c) ==
    IF c.variant = "Private" THEN 33 ELSE OutputByteLength(c.output)

CommitmentByteLength(c) ==
    IF c.variant = "Private" THEN 33 ELSE OutputByteLength(c.output) + 1

CommitmentEncode(c) ==
    IF c.variant = "Private" THEN <<1>> \o c.hash
    ELSE <<2>> \o OutputEncode(c.output)

\* the length tested before the tag is matched
CommitmentDecodeLenFirst(bytes) ==
    IF Len(bytes) < 33 THEN Err("FailedToDecode")
    ELSE IF bytes[1] = 1 THEN Ok(CommitmentPrivate(Slice(bytes, 1, 33)))
    ELSE IF bytes[1] = 2
    THEN LET output == OutputDecode(SliceFrom(bytes, 1))
         IN  IF output.tag = "Ok" THEN Ok(CommitmentPublic(output.value)) ELSE output
    ELSE Err("UnsupportedCommitmentType")

CommitmentDecode(bytes) ==
    IF bytes = <<>> THEN Err("FailedToDecode")
    ELSE IF bytes[1] = 1
    THEN IF Len(bytes) < 33 THEN Err("FailedToDecode")
         ELSE IF ~InRange(bytes, 1, 33) THEN Panicked
         ELSE IF ~FromSliceOk(Slice(bytes, 1, 33), H256_LEN) THEN Panicked
         ELSE Ok(CommitmentPrivate(Slice(bytes, 1, 33)))
    ELSE IF bytes[1] = 2
    THEN LET output == OutputDecode(SliceFrom(bytes, 1))
         IN  IF output.tag = "Ok" THEN Ok(CommitmentPublic(output.value))
             ELSE Propagate(output)
    ELSE Err("UnsupportedCommitmentType")

(***************************************************************************)
(* nullifier.rs: OutputId                                                   *)
(***************************************************************************)
OUTPUT_ID_BYTE_LENGTH == 36

OutputIdByteLength(id) == OUTPUT_ID_BYTE_LENGTH

OutputIdEncode(id) == id.txhash \o U32ToBeBytes(id.index)

OutputIdDecode(bytes) ==
    IF Len(bytes) < OUTPUT_ID_BYTE_LENGTH THEN Err("FailedToDecode")
    ELSE IF ~(InRange(bytes, 0, 32) /\ InRange(bytes, 32, 36)) THEN Panicked
    ELSE IF ~(FromSliceOk(Slice(bytes, 0, 32), H256_LEN)
              /\ FromSliceOk(Slice(bytes, 32, 36), U32_LEN))
    THEN Panicked
    ELSE Ok([txhash |-> Slice(bytes, 0, 32),
             index |-> U32FromBeBytes(Slice(bytes, 32, 36))])

(***************************************************************************)
(* nullifier.rs: Nullifier                                                  *)
(***************************************************************************)
NullifierPrivate(h) == [variant |-> "Private", hash |-> h]

NullifierPublic(id) == [variant |-> "Public", output_id |-> id]

\* the length of the Private variant for both variants
NullifierByteLengthFixed(n) == 33

\* one byte too many for the Public variant
NullifierByteLengthLong(n) ==
    IF n.variant = "Private" THEN 33 ELSE OutputIdByteLength(n.output_id) + 2

NullifierByteLength(n) ==
    IF n.variant = "Private" THEN 33 ELSE OutputIdByteLength(n.output_id) + 1

NullifierEncode(n) ==
    IF n.variant = "Private" THEN <<1>> \o n.hash
    ELSE <<2>> \o OutputIdEncode(n.output_id)

NullifierDecode(bytes) ==
    IF bytes = <<>> THEN Err("FailedToDecode")
    ELSE IF bytes[1] = 1
    THEN IF Len(bytes) < 33 THEN Err("FailedToDecode")
         ELSE IF ~InRange(bytes, 1, 33) THEN Panicked
         ELSE IF ~FromSliceOk(Slice(bytes, 1, 33), H256_LEN) THEN Panicked
         ELSE Ok(NullifierPrivate(Slice(bytes, 1, 33)))
    ELSE IF bytes[1] = 2
    THEN LET output_id == OutputIdDecode(SliceFrom(bytes, 1))
         IN  IF output_id.tag = "Ok" THEN Ok(NullifierPublic(output_id.value))
             ELSE Propagate(output_id)
    ELSE Err("UnsupportedNullifierType")

(***************************************************************************)
(* unencrypted.rs: UnencryptedOutput                                        *)
(***************************************************************************)
UnencryptedOutputByteLength(u) == OutputByteLength(u.output) + 32

UnencryptedOutputEncode(u) == OutputEncode(u.output) \o u.salt

UnencryptedOutputDecode(bytes) ==
    LET output == OutputDecode(bytes)
    IN  IF output.tag # "Ok" THEN Propagate(output)
        ELSE IF ~InRange(bytes, OutputByteLength(output.value), Len(bytes)) THEN Panicked
        ELSE IF ~FromSliceOk(SliceFrom(bytes, OutputByteLength(output.value)), H256_LEN)
        THEN Panicked
        ELSE Ok([output |-> output.value,
                 salt |-> SliceFrom(bytes, OutputByteLength(output.value))])

(***************************************************************************)
(* transaction.rs: Transaction, encode and byte_length                      *)
(***************************************************************************)
NewTransaction(ins, outs) == [inputs |-> ins, outputs |-> outs]

TransactionEncode(tx) ==
    U16ToBeBytes(AsU16(Len(tx.inputs)))
        \o Concat([i \in 1..Len(tx.inputs) |-> NullifierEncode(tx.inputs[i])])
        \o U16ToBeBytes(AsU16(Len(tx.outputs)))
        \o Concat([i \in 1..Len(tx.outputs) |-> CommitmentEncode(tx.outputs[i])])

\* the two counts included
TransactionByteLengthWire(tx) ==
    2 + Sum([i \in 1..Len(tx.inputs) |-> NullifierByteLength(tx.inputs[i])])
        + 2 + Sum([i \in 1..Len(tx.outputs) |-> CommitmentByteLength(tx.outputs[i])])

TransactionByteLength(tx) ==
    Sum([i \in 1..Len(tx.inputs) |-> NullifierByteLength(tx.inputs[i])])
        + Sum([i \in 1..Len(tx.outputs) |-> CommitmentByteLength(tx.outputs[i])])

(***************************************************************************)
(* Sample values: the inputs of the operations.                             *)
(***************************************************************************)
\* U256::from(1000u32) and U256::MAX
Amounts == {Digits(1000, U256_LEN), Fill(U256_LEN, 255)}

Hashes == {Ramp(0, H256_LEN), Fill(H256_LEN, 2)}

Owners == {Ramp(100, H160_LEN), Fill(H160_LEN, 1)}

\* 0, 0x01020304, u32::MAX
Indexes == {Digits(0, U32_LEN), <<4, 3, 2, 1>>, Fill(U32_LEN, 255)}

Outputs == {[amount |-> a, asset |-> h, owner |-> w] : a \in Amounts, h \in Hashes, w \in Owners}

OutputIds == {[txhash |-> h, index |-> x] : h \in Hashes, x \in Indexes}

Commitments == {CommitmentPrivate(h) : h \in Hashes} \cup {CommitmentPublic(o) : o \in Outputs}

Nullifiers == {NullifierPrivate(h) : h \in Hashes} \cup {NullifierPublic(id) : id \in OutputIds}

UnencryptedOutputs == {[output |-> o, salt |-> h] : o \in Outputs, h \in Hashes}

\* the elements of the sample transactions: one of each variant
TxNullifiers ==
    {NullifierPrivate(Ramp(0, H256_LEN)),
     NullifierPublic([txhash |-> Fill(H256_LEN, 2), index |-> <<4, 3, 2, 1>>])}

TxCommitments ==
    {CommitmentPrivate(Fill(H256_LEN, 2)),
     CommitmentPublic([amount |-> Digits(1000, U256_LEN), asset |-> Ramp(0, H256_LEN),
                       owner |-> Ramp(100, H160_LEN)])}

SeqsUpTo(S, n) == UNION {[1..k -> S] : k \in 0..n}

Transactions ==
    {NewTransaction(ins, outs) :
        ins \in SeqsUpTo(TxNullifiers, MaxInputs), outs \in SeqsUpTo(TxCommitments, MaxOutputs)}

Kinds == {"Output", "OutputId", "Commitment", "Nullifier", "Transaction", "UnencryptedOutput"}

Values(k) ==
    CASE k = "Output" -> Outputs
      [] k = "OutputId" -> OutputIds
      [] k = "Commitment" -> Commitments
      [] k = "Nullifier" -> Nullifiers
      [] k = "Transaction" -> Transactions
      [] k = "UnencryptedOutput" -> UnencryptedOutputs

NoValue == [variant |-> "None"]

\* bytes a container or a caller puts after an encoding
Extras == {Fill(n, b) : n \in 0..MaxExtra, b \in {0, 1, 255}}

\* raw buffers of every length up to MaxRawLen: a first byte, then a filler
PatternBuffers ==
    {Slice(<<t>> \o Fill(MaxRawLen, f), 0, n) :
        t \in {0, 1, 2, 3, 255}, f \in {0, 1, 2}, n \in 0..MaxRawLen}

\* the transaction of the repository's test: a private and a public element in each list
BaseTransaction ==
    NewTransaction(
        <<NullifierPrivate(Ramp(0, H256_LEN)),
          NullifierPublic([txhash |-> Fill(H256_LEN, 2), index |-> Digits(0, U32_LEN)])>>,
        <<CommitmentPrivate(Fill(H256_LEN, 2)),
          CommitmentPublic([amount |-> Digits(1000, U256_LEN), asset |-> Ramp(0, H256_LEN),
                            owner |-> Ramp(100, H160_LEN)])>>)

\* an encoded transaction cut short, or with one byte overwritten
TransactionBuffers ==
    LET enc == TransactionEncode(BaseTransaction)
    IN  {Slice(enc, 0, n) : n \in 0..Len(enc)}
            \cup {[enc EXCEPT ![p] = b] : p \in 1..Len(enc), b \in {0, 3}}
            \cup {<<0, 1, 2, 3, 4>>}

RawBuffers(k) == IF k = "Transaction" THEN PatternBuffers \cup TransactionBuffers ELSE PatternBuffers

(***************************************************************************)
(* The codec of each kind.                                                  *)
(***************************************************************************)
EncodeOf(k, v) ==
    CASE k = "Output" -> OutputEncode(v)
      [] k = "OutputId" -> OutputIdEncode(v)
      [] k = "Commitment" -> CommitmentEncode(v)
      [] k = "Nullifier" -> NullifierEncode(v)
      [] k = "Transaction" -> TransactionEncode(v)
      [] k = "UnencryptedOutput" -> UnencryptedOutputEncode(v)

ByteLengthOf(k, v) ==
    CASE k = "Output" -> OutputByteLength(v)
      [] k = "OutputId" -> OutputIdByteLength(v)
      [] k = "Commitment" -> CommitmentByteLength(v)
      [] k = "Nullifier" -> NullifierByteLength(v)
      [] k = "Transaction" -> TransactionByteLength(v)
      [] k = "UnencryptedOutput" -> UnencryptedOutputByteLength(v)

(***************************************************************************)
(* State: one value or raw buffer taken through encode and decode.          *)
(***************************************************************************)
VARIABLES
    kind,         \* the type whose codec runs
    value,        \* the value encoded, NoValue when the buffer is raw
    extra,        \* the bytes put after the encoding
    bytes,        \* the buffer decode is given
    pc,           \* "start", "encoded", "inputs", "outputs", "done"
    result,       \* what decode returned
    cursor,       \* Transaction::decode: cursor
    inputs_len,   \* Transaction::decode: inputs_len
    outputs_len,  \* Transaction::decode: outputs_len
    iter,         \* Transaction::decode: iterations done of the running for loop
    inputs,       \* Transaction::decode: inputs
    outputs,      \* Transaction::decode: outputs
    self_lens,    \* Transaction::encode of a long transaction: the lengths of self.inputs
                  \* and self.outputs
    enc_pc,       \* Transaction::encode of a long transaction: the statement reached
    segments      \* Transaction::encode of a long transaction: what bytes holds, as the
                  \* counts written and the numbers of element encodings after them

vars == <<kind, value, extra, bytes, pc, result, cursor, inputs_len, outputs_len, iter,
          inputs, outputs, self_lens, enc_pc, segments>>

encvars == <<self_lens, enc_pc, segments>>

codecvars == <<kind, value, extra, bytes, pc, result, cursor, inputs_len, outputs_len, iter,
               inputs, outputs>>

txvars == <<cursor, inputs_len, outputs_len, iter, inputs, outputs>>

Init ==
    /\ kind \in Kinds
    /\ \/ /\ value \in Values(kind)
          /\ extra \in Extras
          /\ bytes = <<>>
       \/ /\ value = NoValue
          /\ extra = <<>>
          /\ bytes \in RawBuffers(kind)
    /\ pc = "start"
    /\ result = NoResult
    /\ cursor = 0
    /\ inputs_len = 0
    /\ outputs_len = 0
    /\ iter = 0
    /\ inputs = <<>>
    /\ outputs = <<>>
    /\ self_lens = [inputs |-> 0, outputs |-> 0]
    /\ enc_pc = "idle"
    /\ segments = <<>>

\* x.encode(), the bytes written into a buffer that goes on with extra
Encode ==
    /\ pc = "start"
    /\ value # NoValue
    /\ bytes' = EncodeOf(kind, value) \o extra
    /\ pc' = "encoded"
    /\ UNCHANGED <<encvars, kind, value, extra, result, txvars>>

\* the buffer is ready for decode
Ready == pc = "encoded" \/ (pc = "start" /\ value = NoValue)

Return(r) ==
    /\ result' = r
    /\ pc' = "done"

DecodeOutput ==
    /\ Ready
    /\ kind = "Output"
    /\ Return(OutputDecode(bytes))
    /\ UNCHANGED <<encvars, kind, value, extra, bytes, txvars>>

DecodeOutputId ==
    /\ Ready
    /\ kind = "OutputId"
    /\ Return(OutputIdDecode(bytes))
    /\ UNCHANGED <<encvars, kind, value, extra, bytes, txvars>>

DecodeCommitment ==
    /\ Ready
    /\ kind = "Commitment"
    /\ Return(CommitmentDecode(bytes))
    /\ UNCHANGED <<encvars, kind, value, extra, bytes, txvars>>

DecodeNullifier ==
    /\ Ready
    /\ kind = "Nullifier"
    /\ Return(NullifierDecode(bytes))
    /\ UNCHANGED <<encvars, kind, value, extra, bytes, txvars>>

DecodeUnencryptedOutput ==
    /\ Ready
    /\ kind = "UnencryptedOutput"
    /\ Return(UnencryptedOutputDecode(bytes))
    /\ UNCHANGED <<encvars, kind, value, extra, bytes, txvars>>

(***************************************************************************)
(* transaction.rs: Transaction::decode, one step per loop iteration.        *)
(***************************************************************************)
\* the inputs count
TxDecodeInputsLen ==
    /\ Ready
    /\ kind = "Transaction"
    /\ IF Len(bytes) < 2
       THEN /\ Return(Err("FailedToDecode"))
            /\ UNCHANGED txvars
       ELSE IF ~InRange(bytes, 0, 2)
       THEN /\ Return(Panicked)
            /\ UNCHANGED txvars
       ELSE /\ inputs_len' = U16FromBeBytes(bytes[1], bytes[2])
            /\ cursor' = cursor + 2
            /\ iter' = 0
            /\ pc' = "inputs"
            /\ UNCHANGED <<result, outputs_len, inputs, outputs>>
    /\ UNCHANGED <<encvars, kind, value, extra, bytes>>

\* one iteration of for _ in 0..inputs_len
TxDecodeInput ==
    /\ pc = "inputs"
    /\ iter < inputs_len
    /\ IF ~InRange(bytes, cursor, Len(bytes))
       THEN /\ Return(Panicked)
            /\ UNCHANGED txvars
       ELSE LET input == NullifierDecode(SliceFrom(bytes, cursor))
            IN  IF input.tag # "Ok"
                THEN /\ Return(Propagate(input))
                     /\ UNCHANGED txvars
                ELSE /\ cursor' = cursor + NullifierByteLength(input.value)
                     /\ inputs' = Append(inputs, input.value)
                     /\ iter' = iter + 1
                     /\ UNCHANGED <<pc, result, inputs_len, outputs_len, outputs>>
    /\ UNCHANGED <<encvars, kind, value, extra, bytes>>

\* the outputs count, after the inputs loop
TxDecodeOutputsLen ==
    /\ pc = "inputs"
    /\ iter = inputs_len
    /\ IF Len(bytes) < cursor + 2
       THEN /\ Return(Err("FailedToDecode"))
            /\ UNCHANGED txvars
       ELSE IF ~InRange(bytes, cursor, cursor + 2)
       THEN /\ Return(Panicked)
            /\ UNCHANGED txvars
       ELSE /\ outputs_len' = U16FromBeBytes(bytes[cursor + 1], bytes[cursor + 2])
            /\ cursor' = cursor + 2
            /\ iter' = 0
            /\ pc' = "outputs"
            /\ UNCHANGED <<result, inputs_len, inputs, outputs>>
    /\ UNCHANGED <<encvars, kind, value, extra, bytes>>

\* one iteration of for _ in 0..outputs_len
TxDecodeOutput ==
    /\ pc = "outputs"
    /\ iter < outputs_len
    /\ IF ~InRange(bytes, cursor, Len(bytes))
       THEN /\ Return(Panicked)
            /\ UNCHANGED txvars
       ELSE LET output == CommitmentDecode(SliceFrom(bytes, cursor))
            IN  IF output.tag # "Ok"
                THEN /\ Return(Propagate(output))
                     /\ UNCHANGED txvars
                ELSE /\ cursor' = cursor + CommitmentByteLength(output.value)
                     /\ outputs' = Append(outputs, output.value)
                     /\ iter' = iter + 1
                     /\ UNCHANGED <<pc, result, inputs_len, outputs_len, inputs>>
    /\ UNCHANGED <<encvars, kind, value, extra, bytes>>

\* Ok(Transaction { inputs, outputs })
TxDecodeReturn ==
    /\ pc = "outputs"
    /\ iter = outputs_len
    /\ Return(Ok(NewTransaction(inputs, outputs)))
    /\ UNCHANGED <<encvars, kind, value, extra, bytes, txvars>>

Next ==
    \/ Encode
    \/ DecodeOutput
    \/ DecodeOutputId
    \/ DecodeCommitment
    \/ DecodeNullifier
    \/ DecodeUnencryptedOutput
    \/ TxDecodeInputsLen
    \/ TxDecodeInput
    \/ TxDecodeOutputsLen
    \/ TxDecodeOutput
    \/ TxDecodeReturn

Spec == Init /\ [][Next]_vars

TypeOK ==
    /\ kind \in Kinds
    /\ pc \in {"start", "encoded", "inputs", "outputs", "done"}
    /\ result.tag \in {"None", "Ok", "Err", "Panic"}
    /\ cursor \in 0..(Len(bytes) + 85)

(***************************************************************************)
(* transaction.rs: Transaction::encode of transactions with long lists.     *)
(* A list of some 65536 elements and its encoding of megabytes are kept by  *)
(* what encode reads and writes of them: the length of the list, the two    *)
(* bytes of the count, and the number of element encodings appended by the  *)
(* for loop, which runs once for each element of the list.                  *)
(***************************************************************************)
\* lengths of self.inputs and self.outputs: short lists and lists around 2^16
ListLens == {0, 1, 2, 255, 256, 65534, 65535, 65536, 65537, 65538, 131072}

\* bytes.extend_from_slice(&(len as u16).to_be_bytes())
CountSegment(len) == [segment |-> "count", bytes |-> U16ToBeBytes(AsU16(len))]

\* for x in &list { bytes.extend_from_slice(&x.encode()) }: one encoding for each element
ElementsSegment(len) == [segment |-> "elements", number |-> len]

InitEncode ==
    /\ self_lens \in [inputs : ListLens, outputs : ListLens]
    /\ enc_pc = "inputs_len"
    /\ segments = <<>>
    /\ kind = "Transaction"
    /\ value = NoValue
    /\ extra = <<>>
    /\ bytes = <<>>
    /\ pc = "start"
    /\ result = NoResult
    /\ cursor = 0
    /\ inputs_len = 0
    /\ outputs_len = 0
    /\ iter = 0
    /\ inputs = <<>>
    /\ outputs = <<>>

\* Encode inputs length (2 bytes)
EncodeInputsLen ==
    /\ enc_pc = "inputs_len"
    /\ segments' = Append(segments, CountSegment(self_lens.inputs))
    /\ enc_pc' = "inputs"
    /\ UNCHANGED <<self_lens, codecvars>>

\* Encode inputs
EncodeInputs ==
    /\ enc_pc = "inputs"
    /\ segments' = Append(segments, ElementsSegment(self_lens.inputs))
    /\ enc_pc' = "outputs_len"
    /\ UNCHANGED <<self_lens, codecvars>>

\* Encode outputs length (2 bytes)
EncodeOutputsLen ==
    /\ enc_pc = "outputs_len"
    /\ segments' = Append(segments, CountSegment(self_lens.outputs))
    /\ enc_pc' = "outputs"
    /\ UNCHANGED <<self_lens, codecvars>>

\* Encode outputs, and return bytes
EncodeOutputs ==
    /\ enc_pc = "outputs"
    /\ segments' = Append(segments, ElementsSegment(self_lens.outputs))
    /\ enc_pc' = "done"
    /\ UNCHANGED <<self_lens, codecvars>>

NextEncode ==
    \/ EncodeInputsLen
    \/ EncodeInputs
    \/ EncodeOutputsLen
    \/ EncodeOutputs

SpecEncode == InitEncode /\ [][NextEncode]_vars

(***************************************************************************)
(* Properties.                                                              *)
(***************************************************************************)
Decoded == pc = "done"

FromValue == value # NoValue

\* C1: a Transaction of at most 65535 inputs and 65535 outputs, encoded and
\* then decoded, comes back Ok with the same inputs and the same outputs in
\* the same order.
TransactionRoundTrip ==
    (/\ Decoded
     /\ kind = "Transaction"
     /\ FromValue
     /\ extra = <<>>
     /\ Len(value.inputs) <= 65535
     /\ Len(value.outputs) <= 65535)
        => /\ result.tag = "Ok"
           /\ result.value.inputs = value.inputs
           /\ result.value.outputs = value.outputs

TransactionRoundTripWitness ==
    /\ Decoded
    /\ kind = "Transaction"
    /\ FromValue
    /\ extra = <<>>
    /\ result.tag = "Ok"
    /\ Len(value.inputs) = 2
    /\ Len(value.outputs) = 2
    /\ value.inputs[1].variant = "Public"
    /\ value.inputs[2].variant = "Private"
    /\ value.outputs[1].variant = "Private"
    /\ value.outputs[2].variant = "Public"

\* C2: an Output, OutputId, Commitment, Nullifier or UnencryptedOutput,
\* encoded and then decoded, comes back Ok and equal in every field.
ElementRoundTrip ==
    (/\ Decoded
     /\ kind \in {"Output", "OutputId", "Commitment", "Nullifier", "UnencryptedOutput"}
     /\ FromValue
     /\ extra = <<>>)
        => result = Ok(value)

ElementRoundTripWitness ==
    /\ Decoded
    /\ kind = "UnencryptedOutput"
    /\ FromValue
    /\ extra = <<>>
    /\ result.tag = "Ok"
    /\ result.value.output.amount = Digits(1000, U256_LEN)
    /\ result.value.salt = Ramp(0, H256_LEN)

\* C3: every decode of every buffer returns Ok or one of the three typed
\* errors; it never panics.
DecodeNeverPanics ==
    Decoded => \/ result.tag = "Ok"
               \/ result.tag = "Err" /\ result.error \in Errors

\* C4: decoding an encoding followed by extra bytes succeeds, and the value
\* decoded encodes to the encoding alone.
TrailingBytesIgnored ==
    (Decoded /\ FromValue)
        => /\ result.tag = "Ok"
           /\ EncodeOf(kind, result.value) = EncodeOf(kind, value)

\* the minimum length the claim gives for each entity
MinimumLength(k) ==
    CASE k = "Output" -> 84
      [] k = "OutputId" -> 36
      [] k = "Commitment" -> 33
      [] k = "Nullifier" -> 33
      [] k = "Transaction" -> 4
      [] k = "UnencryptedOutput" -> 116

\* the claim of C5 for the entity k
TruncatedFails(k) ==
    (Decoded /\ kind = k /\ Len(bytes) < MinimumLength(k)) => result = Err("FailedToDecode")

\* C5: decoding from a buffer shorter than the entity's minimum length fails
\* with FailedToDecode, whatever the bytes are; stated here for the
\* UnencryptedOutput, whose minimum length is 116 bytes.
TruncatedFailsToDecode == TruncatedFails("UnencryptedOutput")

\* C6: a non-empty buffer whose first byte is neither 1 nor 2 decodes to
\* UnsupportedCommitmentType as a Commitment and to UnsupportedNullifierType
\* as a Nullifier, whatever follows the first byte.
TagDiscipline ==
    (Decoded /\ bytes # <<>> /\ bytes[1] \notin {1, 2})
        => /\ kind = "Commitment" => result = Err("UnsupportedCommitmentType")
           /\ kind = "Nullifier" => result = Err("UnsupportedNullifierType")

TagDisciplineWitness ==
    /\ Decoded
    /\ kind = "Commitment"
    /\ bytes = <<3>>
    /\ result = Err("UnsupportedCommitmentType")

\* the decode of the element at the cursor
NextInput == NullifierDecode(SliceFrom(bytes, cursor))

NextOutput == CommitmentDecode(SliceFrom(bytes, cursor))

\* C7: when the decode of an element of the inputs or of the outputs fails,
\* Transaction::decode returns that element's error unchanged, and no
\* Transaction.
ElementErrorPropagates ==
    [][/\ (pc = "inputs" /\ iter < inputs_len /\ cursor <= Len(bytes) /\ NextInput.tag = "Err")
            => (pc' = "done" /\ result' = NextInput /\ result'.error \in Errors)
       /\ (pc = "outputs" /\ iter < outputs_len /\ cursor <= Len(bytes) /\ NextOutput.tag = "Err")
            => (pc' = "done" /\ result' = NextOutput /\ result'.error \in Errors)]_vars

ElementErrorPropagatesWitness ==
    /\ Decoded
    /\ kind = "Transaction"
    /\ Len(inputs) = 2
    /\ Len(outputs) = 1
    /\ result = Err("UnsupportedCommitmentType")

\* the encoded lengths the claim gives
ExpectedLength(k, v) ==
    CASE k = "Output" -> 84
      [] k = "OutputId" -> 36
      [] k = "Commitment" -> IF v.variant = "Private" THEN 33 ELSE 85
      [] k = "Nullifier" -> IF v.variant = "Private" THEN 33 ELSE 37

\* C8: the byte_length of an Output, OutputId, Commitment or Nullifier is the
\* number of bytes of its encoding: 84, 36, 33 or 85, 33 or 37.
ByteLengthIsEncodedLength ==
    (/\ pc = "encoded"
     /\ kind \in {"Output", "OutputId", "Commitment", "Nullifier"}
     /\ extra = <<>>)
        => /\ ByteLengthOf(kind, value) = Len(bytes)
           /\ Len(bytes) = ExpectedLength(kind, value)

ByteLengthIsEncodedLengthWitness ==
    /\ pc = "encoded"
    /\ kind = "Commitment"
    /\ extra = <<>>
    /\ value.variant = "Public"
    /\ Len(bytes) = 85

Slicing ==
    \/ pc = "inputs" /\ iter < inputs_len
    \/ pc = "outputs" /\ iter < outputs_len

\* C10: in Transaction::decode the cursor is between 2 and len(bytes) whenever
\* bytes[cursor..] is sliced, cursor + 1 < len(bytes) whenever the outputs
\* count is read, and each decoded element advances the cursor by its
\* byte_length, which is no more than the bytes that remained.
CursorInBounds ==
    /\ [](Slicing => (2 <= cursor /\ cursor <= Len(bytes)))
    /\ [][/\ (pc = "inputs" /\ pc' = "outputs") => cursor + 1 < Len(bytes)
          /\ (pc = "inputs" /\ pc' = "inputs")
                => /\ cursor' = cursor + NullifierByteLength(inputs'[Len(inputs')])
                   /\ cursor' <= Len(bytes)
          /\ (pc = "outputs" /\ pc' = "outputs")
                => /\ cursor' = cursor + CommitmentByteLength(outputs'[Len(outputs')])
                   /\ cursor' <= Len(bytes)]_vars

CursorInBoundsWitness ==
    /\ pc = "outputs"
    /\ iter = 1
    /\ outputs_len > 1
    /\ cursor = Len(bytes)
    /\ Len(inputs) = 2

\* C11: each 16-bit big-endian count that Transaction::encode writes is the
\* number of element encodings it emits after it, for lists of any length:
\* the count is never the length modulo 2^16, and no more than 65535
\* element encodings follow a count.
CountIsNumberOfElements ==
    \A i \in 1..Len(segments) :
        (segments[i].segment = "elements")
            => /\ U16FromBeBytes(segments[i - 1].bytes[1], segments[i - 1].bytes[2])
                    = segments[i].number
               /\ segments[i].number <= 65535

====
